---- MODULE Spec2Model ----
(***************************************************************************)
(* Model of dmap (src/dmap.go): a DMap wraps one interface{} value and     *)
(* resolves paths of mixed key/index segments against nested               *)
(* map[string]interface{}, map[interface{}]interface{} and []interface{}   *)
(* containers.                                                             *)
(*                                                                         *)
(* Go maps and slices are reference values, so the model keeps a heap of   *)
(* container cells; an interface{} value is a record carrying its dynamic  *)
(* type t and either a scalar payload (s, n) or the address s of a cell.    *)
(* Every method is an operator from (heap, receiver data, arguments) to    *)
(* [heap, ret, err]: the heap after the call, the value returned and the   *)
(* error returned.                                                         *)
(***************************************************************************)
EXTENDS Integers, Sequences, FiniteSets, TLC

VARIABLES data, heap, call, writes

vars == <<data, heap, call, writes>>

(* ------------------------------ bounds -------------------------------- *)

\* longest path handed to a method (setters: parent path plus key/index)
MaxPath == 2

\* number of successful writes (setter calls and in-place caller writes)
MaxWrites == 1

(* --------------------------- interface{} values ----------------------- *)

Nil == [t |-> "nil", s |-> "", n |-> 0]

StrV(x) == [t |-> "string", s |-> x, n |-> 0]

IntV(i) == [t |-> "int", s |-> "", n |-> i]

\* float64 NaN: a hashable scalar that is not equal to itself as a map key
NaN == [t |-> "float64", s |-> "NaN", n |-> 0]

Bool(b) == [t |-> "bool", s |-> "", n |-> IF b THEN 1 ELSE 0]

MapSIRef(a) == [t |-> "map[string]interface{}", s |-> a, n |-> 0]

MapIIRef(a) == [t |-> "map[interface{}]interface{}", s |-> a, n |-> 0]

SliceRef(a) == [t |-> "[]interface{}", s |-> a, n |-> 0]

IsMapSI(v) == v.t = "map[string]interface{}"

IsMapII(v) == v.t = "map[interface{}]interface{}"

IsSliceI(v) == v.t = "[]interface{}"

IsContainer(v) == IsMapSI(v) \/ IsMapII(v) \/ IsSliceI(v)

(* ------------------------------ heap cells ---------------------------- *)

\* A cell holds the entries of a map (m, plus nan: the values stored under
\* NaN keys, which no lookup can ever hit) or the elements of a slice.
EmptyFn == [x \in {} |-> Nil]

MapCell(f) == [m |-> f, nan |-> <<>>, elems |-> <<>>]

SliceCell(e) == [m |-> EmptyFn, nan |-> <<>>, elems |-> e]

RootAddr == "c1"

InnerAddr == "c2"

LeafAddr == "c3"

SpareAddr == "c4"

LoopAddr == "c5"

Addrs == {RootAddr, InnerAddr, LeafAddr, SpareAddr, LoopAddr}

(* ------------------------------- errors ------------------------------- *)

NoErr == [fmt |-> "nil", args |-> <<>>]

ArgV(x) == [isPath |-> FALSE, v |-> x, path |-> <<>>]

ArgP(p) == [isPath |-> TRUE, v |-> Nil, path |-> p]

Errorf(format, a) == [fmt |-> format, args |-> a]

Result(h, r, e) == [heap |-> h, ret |-> r, err |-> e]

(* ------------------------------- methods ------------------------------ *)

\* Data returns the data stored by the dmap.
Data(d) == d

\* HasData: d.data != nil
HasData(d) == d # Nil

\* v, ok := data[key] on a map[string]interface{}
MapSIHas(h, cur, key) == key \in DOMAIN h[cur.s].m

\* (mutant) the lookup accepts string keys only
MapIIHasStringOnly(h, cur, p) == p.t = "string" /\ p \in DOMAIN h[cur.s].m

\* v, ok := data[p] on a map[interface{}]interface{}: a NaN key never matches
MapIIHas(h, cur, p) == p # NaN /\ p \in DOMAIN h[cur.s].m

\* index < 0 || index >= len(data)
IndexOutOfRange(index, length) == index < 0 \/ index >= length

\* (mutant) the whole path in place of the prefix
PrefixWholePath(path, i) == path

\* path[:i+1], the segments consumed up to and including the one examined;
\* i is 1-based here, so the Go slice path[:i+1] is SubSeq(path, 1, i)
Prefix(path, i) == SubSeq(path, 1, i)

\* The for loop of Get; i is the 1-based position of the segment examined.
RECURSIVE GetLoop(_, _, _, _)
GetLoop(h, currentData, path, i) ==
  IF i > Len(path) THEN Result(h, currentData, NoErr)
  ELSE LET p == path[i]
           prefix == Prefix(path, i)
       IN IF IsMapSI(currentData) THEN
            IF p.t # "string"
              THEN Result(h, Nil, Errorf("errorExpectedKey", <<ArgV(p), ArgV(p), ArgP(prefix)>>))
            ELSE IF ~MapSIHas(h, currentData, p.s)
              THEN Result(h, Nil, Errorf("errorKeyNotFound", <<ArgV(p), ArgP(prefix)>>))
            ELSE GetLoop(h, h[currentData.s].m[p.s], path, i + 1)
          ELSE IF IsMapII(currentData) THEN
            IF ~MapIIHas(h, currentData, p)
              THEN Result(h, Nil, Errorf("errorKeyNotFound", <<ArgV(p), ArgP(prefix)>>))
            ELSE GetLoop(h, h[currentData.s].m[p], path, i + 1)
          ELSE IF IsSliceI(currentData) THEN
            IF p.t # "int"
              THEN Result(h, Nil, Errorf("errorExpectedIndex", <<ArgV(p), ArgV(p), ArgP(prefix)>>))
            ELSE IF IndexOutOfRange(p.n, Len(h[currentData.s].elems))
              THEN Result(h, Nil, Errorf("errorIndexOutOfRange", <<ArgV(p), ArgP(prefix)>>))
            ELSE GetLoop(h, h[currentData.s].elems[p.n + 1], path, i + 1)
          ELSE Result(h, Nil, Errorf("errorUnexpectedType", <<ArgP(prefix)>>))

\* (mutant) a lookup that misses a key of the root mapping stores nil under it
GetVivify(h, d, path) ==
  IF ~HasData(d) /\ Len(path) # 0
    THEN Result(h, Nil, Errorf("errorEmptyData", <<>>))
    ELSE LET r == GetLoop(h, Data(d), path, 1)
         IN IF IsMapSI(d) /\ Len(path) = 1 /\ r.err.fmt = "errorKeyNotFound"
              THEN Result([h EXCEPT ![d.s].m = (path[1].s :> Nil) @@ @], Nil, r.err)
              ELSE r

\* (mutant) Get without the empty-data test
GetNoEmptyData(h, d, path) == GetLoop(h, Data(d), path, 1)

\* Get returns the data at a given path.
Get(h, d, path) ==
  IF ~HasData(d) /\ Len(path) # 0
    THEN Result(h, Nil, Errorf("errorEmptyData", <<>>))
    ELSE GetLoop(h, Data(d), path, 1)

\* (mutant) a nil root counts as existing whatever the path
ExistsNilRoot(h, d, path) ==
  LET r == Get(h, d, path)
  IN Result(r.heap, Bool(r.err = NoErr \/ r.err.fmt = "errorEmptyData"), NoErr)

\* Exists: _, err := d.Get(path...); return err == nil
Exists(h, d, path) ==
  LET r == Get(h, d, path)
  IN Result(r.heap, Bool(r.err = NoErr), NoErr)

\* GetMapSI returns the data at a given path as map[string]interface{}.
GetMapSI(h, d, path) ==
  LET r == Get(h, d, path)
  IN IF r.err # NoErr THEN Result(r.heap, Nil, r.err)
     ELSE IF ~IsMapSI(Data(r.ret))
       THEN Result(r.heap, Nil, Errorf("errorNotMapSI", <<ArgP(path)>>))
     ELSE Result(r.heap, Data(r.ret), NoErr)

\* GetMapII returns the data at a given path as map[interface{}]interface{}.
GetMapII(h, d, path) ==
  LET r == Get(h, d, path)
  IN IF r.err # NoErr THEN Result(r.heap, Nil, r.err)
     ELSE IF ~IsMapII(Data(r.ret))
       THEN Result(r.heap, Nil, Errorf("errorNotMapII", <<ArgP(path)>>))
     ELSE Result(r.heap, Data(r.ret), NoErr)

\* (mutant) the sequence is copied to a new backing array and the copy returned
GetSliceICopy(h, d, path) ==
  LET r == Get(h, d, path)
  IN IF r.err # NoErr THEN Result(r.heap, Nil, r.err)
     ELSE IF ~IsSliceI(Data(r.ret))
       THEN Result(r.heap, Nil, Errorf("errorNotSliceI", <<ArgP(path)>>))
     ELSE Result([r.heap EXCEPT ![SpareAddr] = r.heap[r.ret.s]], SliceRef(SpareAddr), NoErr)

\* GetSliceI returns the data at a given path as []interface{}.
GetSliceI(h, d, path) ==
  LET r == Get(h, d, path)
  IN IF r.err # NoErr THEN Result(r.heap, Nil, r.err)
     ELSE IF ~IsSliceI(Data(r.ret))
       THEN Result(r.heap, Nil, Errorf("errorNotSliceI", <<ArgP(path)>>))
     ELSE Result(r.heap, Data(r.ret), NoErr)

\* (mutant) the assignment keeps the value of a key that is present
MapSIStoreIfAbsent(h, parent, key, dat) ==
  IF key \in DOMAIN h[parent.s].m THEN h
  ELSE [h EXCEPT ![parent.s].m = (key :> dat) @@ @]

\* parent[key] = data on a map[string]interface{}; key is a Go string
MapSIStore(h, parent, key, dat) ==
  [h EXCEPT ![parent.s].m = (key :> dat) @@ @]

\* (mutant) storing nil deletes the key
MapIIStoreNilDeletes(h, parent, key, dat) ==
  IF dat = Nil
    THEN [h EXCEPT ![parent.s].m = [k \in (DOMAIN @) \ {key} |-> @[k]]]
  ELSE IF key = NaN THEN [h EXCEPT ![parent.s].nan = Append(@, dat)]
  ELSE [h EXCEPT ![parent.s].m = (key :> dat) @@ @]

\* parent[key] = data on a map[interface{}]interface{}: a NaN key equals no
\* key already present, so the assignment always adds one more entry
MapIIStore(h, parent, key, dat) ==
  IF key = NaN THEN [h EXCEPT ![parent.s].nan = Append(@, dat)]
  ELSE [h EXCEPT ![parent.s].m = (key :> dat) @@ @]

\* parent[index] = data on a []interface{}
SliceIStore(h, parent, index, dat) ==
  [h EXCEPT ![parent.s].elems[index + 1] = dat]

\* SetMapSI sets data to a map[string]interface{} at a given path.
SetMapSI(h, d, dat, key, path) ==
  LET g == GetMapSI(h, d, path)
  IN IF g.err # NoErr THEN Result(g.heap, Nil, g.err)
     ELSE Result(MapSIStore(g.heap, g.ret, key, dat), Nil, NoErr)

\* (mutant) every failure to resolve the parent is reported as NotMapII
SetMapIIOwnError(h, d, dat, key, path) ==
  LET g == GetMapII(h, d, path)
  IN IF g.err # NoErr THEN Result(g.heap, Nil, Errorf("errorNotMapII", <<ArgP(path)>>))
     ELSE Result(MapIIStore(g.heap, g.ret, key, dat), Nil, NoErr)

\* SetMapII sets data to a map[interface{}]interface{} at a given path.
SetMapII(h, d, dat, key, path) ==
  LET g == GetMapII(h, d, path)
  IN IF g.err # NoErr THEN Result(g.heap, Nil, g.err)
     ELSE Result(MapIIStore(g.heap, g.ret, key, dat), Nil, NoErr)

\* (mutant) the index one past the end appends
SetSliceIAppend(h, d, dat, index, path) ==
  LET g == GetSliceI(h, d, path)
  IN IF g.err # NoErr THEN Result(g.heap, Nil, g.err)
     ELSE IF index = Len(g.heap[g.ret.s].elems)
       THEN Result([g.heap EXCEPT ![g.ret.s].elems = Append(@, dat)], Nil, NoErr)
     ELSE IF IndexOutOfRange(index, Len(g.heap[g.ret.s].elems))
       THEN Result(g.heap, Nil, Errorf("errorIndexOutOfRange", <<ArgV(IntV(index)), ArgP(path)>>))
     ELSE Result(SliceIStore(g.heap, g.ret, index, dat), Nil, NoErr)

\* SetSliceI sets data to a []interface{} at a given path.
SetSliceI(h, d, dat, index, path) ==
  LET g == GetSliceI(h, d, path)
  IN IF g.err # NoErr THEN Result(g.heap, Nil, g.err)
     ELSE IF IndexOutOfRange(index, Len(g.heap[g.ret.s].elems))
       THEN Result(g.heap, Nil, Errorf("errorIndexOutOfRange", <<ArgV(IntV(index)), ArgP(path)>>))
     ELSE Result(SliceIStore(g.heap, g.ret, index, dat), Nil, NoErr)

(* --------------------------- inputs of the calls ---------------------- *)

\* path segments: a key present in the initial maps, a key absent from
\* them, a valid index, the index one past the end of the initial slice, a
\* negative index, and a scalar that is neither a string nor an int
Segs == {StrV("a"), StrV("z"), IntV(0), IntV(2), IntV(-1), NaN}

Keys == {v.s : v \in {x \in Segs : x.t = "string"}}

Indexes == {v.n : v \in {x \in Segs : x.t = "int"}}

Paths(n) == UNION {[1..k -> Segs] : k \in 0..n}

\* values a caller stores: nil, a string, a map it built itself, or the
\* container the DMap wraps (d.Data(), which makes the data refer to itself)
Vals(d) ==
  {Nil, StrV("w"), MapSIRef(SpareAddr)} \cup (IF IsContainer(d) THEN {d} ELSE {})

(* ------------------------------- state -------------------------------- *)

Idle == [op |-> "none", path |-> <<>>, key |-> Nil, val |-> Nil, ret |-> Nil, err |-> NoErr]

Call(op, path, key, val, r) ==
  [op |-> op, path |-> path, key |-> key, val |-> val, ret |-> r.ret, err |-> r.err]

\* the decoded documents: {"a": [null, "x"]} at c1, a scalar-keyed map
\* {0: <c1>, "a": "x"} at c2, the sequence [null, "x"] at c3, an empty map
\* the caller holds at c4, and at c5 a map the caller built with m["a"] = m
InitHeap ==
  (RootAddr :> MapCell("a" :> SliceRef(LeafAddr))) @@
  (InnerAddr :> MapCell((IntV(0) :> MapSIRef(RootAddr)) @@ (StrV("a") :> StrV("x")))) @@
  (LeafAddr :> SliceCell(<<Nil, StrV("x")>>)) @@
  (SpareAddr :> MapCell(EmptyFn)) @@
  (LoopAddr :> MapCell("a" :> MapSIRef(LoopAddr)))

\* Init(v): &DMap{data: v}
Init ==
  /\ data \in {Nil, StrV("x"), MapSIRef(RootAddr), MapIIRef(InnerAddr), SliceRef(LeafAddr),
               MapSIRef(LoopAddr)}
  /\ heap = InitHeap
  /\ call = Idle
  /\ writes = 0

\* a read leaves the heap its operator returns
ReadEffect(r) ==
  /\ heap' = r.heap
  /\ UNCHANGED <<data, writes>>

\* a setter leaves the heap its operator returns; a setter that returned no
\* error is counted as a write
WriteEffect(r) ==
  /\ heap' = r.heap
  /\ IF r.err = NoErr THEN writes < MaxWrites /\ writes' = writes + 1
     ELSE writes' = writes
  /\ UNCHANGED data

CallGet ==
  /\ call.op = "none"
  /\ \E path \in Paths(MaxPath) :
       \E r \in {Get(heap, data, path)} :
         call' = Call("Get", path, Nil, Nil, r) /\ ReadEffect(r)

CallExists ==
  /\ call.op = "none"
  /\ \E path \in Paths(MaxPath) :
       \E r \in {Exists(heap, data, path)} :
         call' = Call("Exists", path, Nil, Nil, r) /\ ReadEffect(r)

CallGetMapSI ==
  /\ call.op = "none"
  /\ \E path \in Paths(MaxPath) :
       \E r \in {GetMapSI(heap, data, path)} :
         call' = Call("GetMapSI", path, Nil, Nil, r) /\ ReadEffect(r)

CallGetMapII ==
  /\ call.op = "none"
  /\ \E path \in Paths(MaxPath) :
       \E r \in {GetMapII(heap, data, path)} :
         call' = Call("GetMapII", path, Nil, Nil, r) /\ ReadEffect(r)

CallGetSliceI ==
  /\ call.op = "none"
  /\ \E path \in Paths(MaxPath) :
       \E r \in {GetSliceI(heap, data, path)} :
         call' = Call("GetSliceI", path, Nil, Nil, r) /\ ReadEffect(r)

CallSetMapSI ==
  /\ call.op = "none"
  /\ \E path \in Paths(MaxPath - 1), key \in Keys, dat \in Vals(data) :
       \E r \in {SetMapSI(heap, data, dat, key, path)} :
         call' = Call("SetMapSI", path, StrV(key), dat, r) /\ WriteEffect(r)

CallSetMapII ==
  /\ call.op = "none"
  /\ \E path \in Paths(MaxPath - 1), key \in Segs, dat \in Vals(data) :
       \E r \in {SetMapII(heap, data, dat, key, path)} :
         call' = Call("SetMapII", path, key, dat, r) /\ WriteEffect(r)

CallSetSliceI ==
  /\ call.op = "none"
  /\ \E path \in Paths(MaxPath - 1), index \in Indexes, dat \in Vals(data) :
       \E r \in {SetSliceI(heap, data, dat, index, path)} :
         call' = Call("SetSliceI", path, IntV(index), dat, r) /\ WriteEffect(r)

\* The caller assigns into the container a typed getter has just returned:
\* mapSI["custom_field"] = "now exists", sliceI[1] = "changed".
Write ==
  /\ call.op \in {"GetMapSI", "GetMapII", "GetSliceI"}
  /\ call.err = NoErr
  /\ writes < MaxWrites
  /\ \E dat \in Vals(data) :
       \/ /\ call.op = "GetMapSI"
          /\ \E key \in Keys :
               /\ heap' = MapSIStore(heap, call.ret, key, dat)
               /\ call' = [call EXCEPT !.op = "Write", !.key = StrV(key), !.val = dat]
       \/ /\ call.op = "GetMapII"
          /\ \E key \in Segs :
               /\ heap' = MapIIStore(heap, call.ret, key, dat)
               /\ call' = [call EXCEPT !.op = "Write", !.key = key, !.val = dat]
       \/ /\ call.op = "GetSliceI"
          /\ \E index \in Indexes :
               /\ ~IndexOutOfRange(index, Len(heap[call.ret.s].elems))
               /\ heap' = SliceIStore(heap, call.ret, index, dat)
               /\ call' = [call EXCEPT !.op = "Write", !.key = IntV(index), !.val = dat]
  /\ writes' = writes + 1
  /\ UNCHANGED data

\* the caller is done with the result of the last call
Return ==
  /\ call.op # "none"
  /\ call' = Idle
  /\ UNCHANGED <<data, heap, writes>>

Next ==
  \/ CallGet
  \/ CallExists
  \/ CallGetMapSI
  \/ CallGetMapII
  \/ CallGetSliceI
  \/ CallSetMapSI
  \/ CallSetMapII
  \/ CallSetSliceI
  \/ Write
  \/ Return

Spec == Init /\ [][Next]_vars

(* -------------------- what a path denotes in a tree -------------------- *)

\* the outcome of resolving one segment against the value v, by v's shape:
\* "ok" or the error kind
StepKind(h, v, seg) ==
  IF IsMapSI(v) THEN
    IF seg.t # "string" THEN "errorExpectedKey"
    ELSE IF seg.s \notin DOMAIN h[v.s].m THEN "errorKeyNotFound"
    ELSE "ok"
  ELSE IF IsMapII(v) THEN
    IF seg \notin DOMAIN h[v.s].m THEN "errorKeyNotFound" ELSE "ok"
  ELSE IF IsSliceI(v) THEN
    IF seg.t # "int" THEN "errorExpectedIndex"
    ELSE IF seg.n < 0 \/ seg.n >= Len(h[v.s].elems) THEN "errorIndexOutOfRange"
    ELSE "ok"
  ELSE "errorUnexpectedType"

\* the entry of container v under a segment that resolves
Child(h, v, seg) ==
  IF IsMapSI(v) THEN h[v.s].m[seg.s]
  ELSE IF IsMapII(v) THEN h[v.s].m[seg]
  ELSE h[v.s].elems[seg.n + 1]

\* the position of the first segment of p, from position i on, that does
\* not resolve below v; 0 when all of them resolve
RECURSIVE FirstFail(_, _, _, _)
FirstFail(h, v, p, i) ==
  IF i > Len(p) THEN 0
  ELSE IF StepKind(h, v, p[i]) # "ok" THEN i
  ELSE FirstFail(h, Child(h, v, p[i]), p, i + 1)

\* the value reached from v by the first k segments of p, which all resolve
RECURSIVE Reached(_, _, _, _)
Reached(h, v, p, k) ==
  IF k = 0 THEN v
  ELSE LET u == Reached(h, v, p, k - 1) IN Child(h, u, p[k])

\* the error carries, as one of its arguments, the path q
CarriesPath(e, q) == \E k \in DOMAIN e.args : e.args[k].isPath /\ e.args[k].path = q

\* Get(p...) and then Get(s) on the node it returned
TwoStep(h, d, p, s) ==
  LET r == Get(h, d, p)
  IN IF r.err # NoErr THEN r ELSE Get(r.heap, r.ret, <<s>>)

Front(p) == SubSeq(p, 1, Len(p) - 1)

(* -------------------------------- claims ------------------------------ *)

\* C1: Get resolves the path one segment at a time from the root: it
\* returns the value reached after the last segment, or fails at the first
\* segment that does not resolve, with the error kind fixed by the shape of
\* the value at that step (EmptyData for a nil root and a non-empty path).
C1_GetContract ==
  call.op = "Get" =>
    LET p == call.path
        f == FirstFail(heap, data, p, 1)
    IN IF data = Nil /\ Len(p) > 0 THEN call.err.fmt = "errorEmptyData"
       ELSE IF f = 0 THEN call.err = NoErr /\ call.ret = Reached(heap, data, p, Len(p))
       ELSE /\ call.err.fmt = StepKind(heap, Reached(heap, data, p, f - 1), p[f])
            /\ call.ret = Nil

\* a Get that failed at its second segment, on an index past the end
C1_Witness ==
  /\ call.op = "Get"
  /\ Len(call.path) = 2
  /\ call.err.fmt = "errorIndexOutOfRange"
  /\ call.path[2] = IntV(2)

\* C7: Exists(p...) is true exactly when Get(p...) returns no error.
C7_ExistsIffGet ==
  call.op = "Exists" =>
    /\ call.ret \in {Bool(TRUE), Bool(FALSE)}
    /\ (call.ret = Bool(TRUE)) <=> (Get(heap, data, call.path).err = NoErr)

\* Exists answered false for a path that Get fails on
C7_Witness ==
  /\ call.op = "Exists"
  /\ call.ret = Bool(FALSE)
  /\ Get(heap, data, call.path).err.fmt = "errorKeyNotFound"

\* C8 as claimed: every error Get returns carries the path prefix up to and
\* including the failing step.
C8_EveryErrorCarriesPrefix ==
  (call.op = "Get" /\ call.err # NoErr) =>
    CarriesPath(call.err, SubSeq(call.path, 1, FirstFail(heap, data, call.path, 1)))

\* C8 amended: every error Get returns other than EmptyData carries the path
\* prefix up to and including the failing step and no other path; EmptyData
\* carries no path at all.
C8_ErrorCarriesPrefixUnlessEmptyData ==
  (call.op = "Get" /\ call.err # NoErr) =>
    IF call.err.fmt = "errorEmptyData" THEN call.err.args = <<>>
    ELSE LET q == SubSeq(call.path, 1, FirstFail(heap, data, call.path, 1))
         IN /\ CarriesPath(call.err, q)
            /\ \A k \in DOMAIN call.err.args :
                 call.err.args[k].isPath => call.err.args[k].path = q

\* a Get of two segments that failed at the first one
C8_Witness ==
  /\ call.op = "Get"
  /\ Len(call.path) = 2
  /\ call.err.fmt = "errorExpectedKey"
  /\ CarriesPath(call.err, SubSeq(call.path, 1, 1))

\* C6 as claimed: Get(p...) followed by Get(s) agrees with Get(p..., s):
\* both succeed with the same value, or both fail with the same error kind.
C6_Associative ==
  (call.op = "Get" /\ Len(call.path) > 0) =>
    LET two == TwoStep(heap, data, Front(call.path), call.path[Len(call.path)])
    IN /\ call.err.fmt = two.err.fmt
       /\ call.err = NoErr => call.ret = two.ret

\* C6 amended: both succeed with the same value, or both fail; they fail
\* with the same error kind unless p is non-empty and reaches nil, where the
\* two calls give EmptyData and the one call gives UnexpectedType.
C6_AssociativeUnlessNil ==
  (call.op = "Get" /\ Len(call.path) > 0) =>
    LET p == Front(call.path)
        first == Get(heap, data, p)
        two == TwoStep(heap, data, p, call.path[Len(call.path)])
    IN /\ (call.err = NoErr) <=> (two.err = NoErr)
       /\ call.err = NoErr => call.ret = two.ret
       /\ IF Len(p) > 0 /\ first.err = NoErr /\ first.ret = Nil
            THEN two.err.fmt = "errorEmptyData" /\ call.err.fmt = "errorUnexpectedType"
            ELSE call.err.fmt = two.err.fmt

\* a Get whose path but the last segment reaches a nil element
C6_Witness ==
  /\ call.op = "Get"
  /\ Len(call.path) = 2
  /\ Get(heap, data, Front(call.path)).err = NoErr
  /\ Get(heap, data, Front(call.path)).ret = Nil

(* ------------------------ claims about the writes --------------------- *)

Setters == {"SetMapSI", "SetMapII", "SetSliceI"}

Readers == {"Get", "Exists", "GetMapSI", "GetMapII", "GetSliceI"}

\* the typed getter a setter resolves its parent with
ParentOf(op, h, d, path) ==
  IF op = "SetMapSI" THEN GetMapSI(h, d, path)
  ELSE IF op = "SetMapII" THEN GetMapII(h, d, path)
  ELSE GetSliceI(h, d, path)

\* Get(path..., key) on the heap h returns the value v and no error
ReadsBack(h, d, path, key, v) ==
  LET g == Get(h, d, Append(path, key))
  IN g.err = NoErr /\ g.ret = v

\* every entry of the container c other than the one under key holds in h2
\* the value it holds in h
SiblingsKept(h, h2, c, key) ==
  LET old == h[c.s]
      new == h2[c.s]
      k0 == IF IsMapSI(c) THEN key.s ELSE key
  IN /\ \A k \in DOMAIN old.m \ {k0} : k \in DOMAIN new.m /\ new.m[k] = old.m[k]
     /\ \A j \in DOMAIN old.nan : j \in DOMAIN new.nan /\ new.nan[j] = old.nan[j]
     /\ Len(new.elems) = Len(old.elems)
     /\ \A j \in DOMAIN old.elems : (IsSliceI(c) /\ j = key.n + 1) \/ new.elems[j] = old.elems[j]

\* resolving path from d reads the entry of container c under key
PassesThrough(h, d, path, c, key) ==
  \E i \in 0..(Len(path) - 1) : Reached(h, d, path, i) = c /\ path[i + 1] = key

\* a setter has just returned no error
SetterDone == call.op = "none" /\ call'.op \in Setters /\ call'.err = NoErr

\* C2 as claimed, on a tree (resolving path does not read the entry
\* written): after a setter returns no error, Get(path..., key) returns the
\* value written, and every other entry of the written container is
\* unchanged.
C2_ReadAfterWrite ==
  [][SetterDone =>
       LET c == ParentOf(call'.op, heap, data, call'.path).ret
       IN /\ ~PassesThrough(heap, data, call'.path, c, call'.key) =>
               /\ ReadsBack(heap', data', call'.path, call'.key, call'.val)
               /\ Exists(heap', data', Append(call'.path, call'.key)).ret = Bool(TRUE)
          /\ SiblingsKept(heap, heap', c, call'.key)]_vars

\* C2 amended: the same, provided the key is equal to itself; after SetMapII
\* with a NaN key, which is stored as one more entry, Get(path..., key)
\* fails with KeyNotFound. The other entries are kept in every case.
C2_ReadAfterWriteUnlessNaN ==
  [][SetterDone =>
       LET c == ParentOf(call'.op, heap, data, call'.path).ret
           full == Append(call'.path, call'.key)
       IN /\ (call'.key # NaN /\ ~PassesThrough(heap, data, call'.path, c, call'.key)) =>
               /\ ReadsBack(heap', data', call'.path, call'.key, call'.val)
               /\ Exists(heap', data', full).ret = Bool(TRUE)
          /\ (call'.key = NaN /\ ~PassesThrough(heap, data, call'.path, c, call'.key)) =>
               /\ Get(heap', data', full).err.fmt = "errorKeyNotFound"
               /\ Exists(heap', data', full).ret = Bool(FALSE)
          /\ SiblingsKept(heap, heap', c, call'.key)]_vars

\* SetMapSI has overwritten the key "a" of the root mapping, which it held
C2_Witness ==
  /\ call.op = "SetMapSI"
  /\ call.err = NoErr
  /\ call.path = <<>>
  /\ call.key = StrV("a")
  /\ call.val = StrV("w")
  /\ data = MapSIRef(RootAddr)
  /\ heap[RootAddr].m["a"] = StrV("w")

\* C3: when the parent path does not resolve to the container the setter
\* expects, the setter returns the error of its typed getter and the tree is
\* left as it was.
C3_SetterNeverCreatesPath ==
  [][(call.op = "none" /\ call'.op \in Setters
        /\ ParentOf(call'.op, heap, data, call'.path).err # NoErr) =>
       /\ call'.err = ParentOf(call'.op, heap, data, call'.path).err
       /\ heap' = heap
       /\ data' = data]_vars

\* SetMapII was handed a parent path whose key is missing
C3_Witness ==
  /\ call.op = "SetMapII"
  /\ Len(call.path) = 1
  /\ call.err.fmt = "errorKeyNotFound"

\* C4: SetSliceI with an index outside [0, length) of the sequence at path
\* fails with IndexOutOfRange and leaves the heap as it was.
C4_SetSliceIOutOfRange ==
  [][(call.op = "none" /\ call'.op = "SetSliceI"
        /\ GetSliceI(heap, data, call'.path).err = NoErr
        /\ (call'.key.n < 0
              \/ call'.key.n >= Len(heap[GetSliceI(heap, data, call'.path).ret.s].elems))) =>
       /\ call'.err.fmt = "errorIndexOutOfRange"
       /\ heap' = heap]_vars

\* SetSliceI was handed the index one past the end of the sequence
C4_Witness ==
  /\ call.op = "SetSliceI"
  /\ call.key = IntV(2)
  /\ data = SliceRef(LeafAddr)
  /\ call.path = <<>>
  /\ Len(heap[LeafAddr].elems) = 2
  /\ call.err.fmt = "errorIndexOutOfRange"

\* C5 as claimed, on a tree (resolving the getter's path does not read the
\* entry written): after the caller writes an entry of the container a typed
\* getter returned, Get of that entry's path returns the written value.
C5_SharedContainer ==
  [][(call'.op = "Write"
        /\ ~PassesThrough(heap, data, call'.path, call'.ret, call'.key)) =>
       /\ ReadsBack(heap', data', call'.path, call'.key, call'.val)
       /\ Exists(heap', data', Append(call'.path, call'.key)).ret = Bool(TRUE)]_vars

\* C5 amended: the same, provided the key is equal to itself; an entry
\* written under a NaN key of the returned mapping is stored in the tree's
\* own mapping, and Get of its path fails with KeyNotFound.
C5_SharedContainerUnlessNaN ==
  [][call'.op = "Write" =>
       LET full == Append(call'.path, call'.key)
       IN /\ call'.ret = Get(heap, data, call'.path).ret
          /\ ~PassesThrough(heap, data, call'.path, call'.ret, call'.key) =>
               IF call'.key = NaN
                 THEN /\ Get(heap', data', full).err.fmt = "errorKeyNotFound"
                      /\ Len(heap'[call'.ret.s].nan) = Len(heap[call'.ret.s].nan) + 1
                 ELSE /\ ReadsBack(heap', data', call'.path, call'.key, call'.val)
                      /\ Exists(heap', data', full).ret = Bool(TRUE)]_vars

\* the caller has replaced an element of the sequence GetSliceI returned for
\* a path of one segment
C5_Witness ==
  /\ call.op = "Write"
  /\ IsSliceI(call.ret)
  /\ Len(call.path) = 1
  /\ call.val = StrV("w")
  /\ heap[call.ret.s].elems[call.key.n + 1] = StrV("w")

\* C9: Get, Exists, GetMapSI, GetMapII and GetSliceI leave the root value and
\* every container unchanged, whether they succeed or fail.
C9_ReadsArePure ==
  [][(call.op = "none" /\ call'.op \in Readers) => (heap' = heap /\ data' = data)]_vars

\* GetMapSI has failed on a missing key
C9_Witness ==
  /\ call.op = "GetMapSI"
  /\ call.err.fmt = "errorKeyNotFound"

\* C10: no step removes a key from a mapping or changes the length of a
\* sequence, and the root value is never replaced.
C10_NothingDeleted ==
  [][/\ data' = data
     /\ \A a \in Addrs :
          /\ DOMAIN heap[a].m \subseteq DOMAIN heap'[a].m
          /\ Len(heap'[a].nan) >= Len(heap[a].nan)
          /\ Len(heap'[a].elems) = Len(heap[a].elems)]_vars

\* SetMapII has stored nil under a key the mapping held
C10_Witness ==
  /\ call.op = "SetMapII"
  /\ call.err = NoErr
  /\ call.val = Nil
  /\ call.path = <<>>
  /\ call.key = StrV("a")
  /\ heap[InnerAddr].m[StrV("a")] = Nil

====
